---------------------------- MODULE Spec2Model ----------------------------
(***************************************************************************)
(* A model of hexworld/mcts.py: the evacuation decision engine of the      *)
(* flood simulator.  The module holds the engine's pure functions as       *)
(* operators, and one specification per part of the engine:                *)
(*                                                                         *)
(*   SpecStep     one call of MCTS.get_next_state, statement by statement, *)
(*                on a heap of world objects (aliasing is visible);        *)
(*   SpecRollout  MCTS.random_rollout, one loop iteration per step;        *)
(*   SpecPolicy   RandPolicy, one loop iteration per step;                 *)
(*   SpecPolicyFair  RandPolicy under a valid configuration, run to its    *)
(*                return (weak fairness of the next statement);            *)
(*   SpecEnum     MCTS.get_branched_actions on drawn worlds;               *)
(*   SpecTree     Node / MCTS.ucb1 / get_best_action / expand.             *)
(*                                                                         *)
(* world.py, water_sim.py and constants.py are not part of the sources at  *)
(* hand: the world container, the four simulation steps and the values of  *)
(* the configuration constants are modelled from the specification (§6).   *)
(* Reals are modelled by integers; a quotient is kept as a fraction.       *)
(***************************************************************************)
EXTENDS Integers, Sequences, FiniteSets

VARIABLES
    cfg,            \* the imported configuration constants (mcts.py line 3)
    \* --- SpecStep: one get_next_state call on a heap of World objects
    heap,           \* sequence of world values; a reference is an index
    state_ref,      \* the caller's `state`
    next_ref,       \* the callee's `next_state` (0: unbound)
    step_action,    \* the callee's `action`
    step_pc,        \* position inside get_next_state
    pre_heap,       \* the heap as it was when the call was made
    calls,          \* calls made so far
    \* --- SpecRollout: random_rollout(state, steps)
    rollout_state, steps, i, utility, roll_pc,
    evac_hexes,     \* the action built by the last iteration
    last_reward,    \* the last calculate_reward call: arguments and result
    \* --- SpecPolicy: RandPolicy(state)
    state, t, net_reward, pol_pc,
    trajectory,     \* per iteration: state, horizon, action, next_state
    \* --- SpecEnum: get_branched_actions(state)
    enum_state, action_space, actions, enum_pc,
    \* --- SpecTree: the search tree
    nodes,          \* sequence of Node objects; a reference is an index
    tree_result     \* what the last call on the tree returned or raised

vars == <<cfg, heap, state_ref, next_ref, step_action, step_pc, pre_heap,
          calls, rollout_state, steps, i, utility, roll_pc, evac_hexes,
          last_reward, state, t, net_reward, pol_pc, trajectory,
          enum_state, action_space, actions, enum_pc, nodes, tree_result>>

stepVars == <<heap, state_ref, next_ref, step_action, step_pc, pre_heap, calls>>
rollVars == <<rollout_state, steps, i, utility, roll_pc, evac_hexes, last_reward>>
polVars == <<state, t, net_reward, pol_pc, trajectory>>
enumVars == <<enum_state, action_space, actions, enum_pc>>
treeVars == <<nodes, tree_result>>

---------------------------------------------------------------------------
(* Bounds of the model.                                                    *)

NumCells == 2       \* cells of a world in SpecStep and SpecRollout
PolicyCells == 1    \* cells of a world in SpecPolicy
EnumCells == 6      \* cells of a world in SpecEnum
GridWidth == 2      \* cells per grid row
MaxCalls == 1       \* get_next_state calls in SpecStep
MaxSteps == 2       \* largest `steps` handed to random_rollout
MaxSimTime == 2     \* largest SIM_TIME of a configuration
MaxNodes == 3       \* Node objects in SpecTree
MaxUpdates == 3     \* Node.update calls in SpecTree

\* Python's None, and a value that is not None
None == <<>>
Some(x) == <<x>>

---------------------------------------------------------------------------
(* Configuration: `from constants import ...` (line 3).  The values are    *)
(* supplied externally; a run draws one configuration.                     *)

FLOOD_LEVEL == cfg.FLOOD_LEVEL
MAX_EVAC_CELLS == cfg.MAX_EVAC_CELLS
PRECIP_RATE == cfg.PRECIP_RATE
R_DRY_EVAC == cfg.R_DRY_EVAC
R_DRY_NO_EVAC == cfg.R_DRY_NO_EVAC
R_FLOOD_EVAC == cfg.R_FLOOD_EVAC
R_FLOOD_NO_EVAC == cfg.R_FLOOD_NO_EVAC
SIM_TIME == cfg.SIM_TIME

Weights ==
    { [R_FLOOD_EVAC |-> 2, R_DRY_EVAC |-> -1, R_FLOOD_NO_EVAC |-> -5, R_DRY_NO_EVAC |-> 0],
      [R_FLOOD_EVAC |-> 3, R_DRY_EVAC |-> -2, R_FLOOD_NO_EVAC |-> -7, R_DRY_NO_EVAC |-> 1] }

Config(w, flood, evac, precip, sim) ==
    [FLOOD_LEVEL |-> flood, MAX_EVAC_CELLS |-> evac, PRECIP_RATE |-> precip,
     SIM_TIME |-> sim, R_FLOOD_EVAC |-> w.R_FLOOD_EVAC, R_DRY_EVAC |-> w.R_DRY_EVAC,
     R_FLOOD_NO_EVAC |-> w.R_FLOOD_NO_EVAC, R_DRY_NO_EVAC |-> w.R_DRY_NO_EVAC]

\* Capacities and horizons include the invalid ones (<= 0).
Configs(weights, evacs, precips, sims) ==
    { Config(w, 2, evac, precip, sim) :
        w \in weights, evac \in evacs, precip \in precips, sim \in sims }

---------------------------------------------------------------------------
(* Python helpers.                                                         *)

Range(s) == { s[j] : j \in DOMAIN s }

\* `x in list`
In(x, list) == \E j \in DOMAIN list : list[j] = x

Distinct(s) == \A j, k \in DOMAIN s : j # k => s[j] # s[k]

RECURSIVE Sum(_)
Sum(s) == IF s = <<>> THEN 0 ELSE s[1] + Sum(Tail(s))

RECURSIVE Flatten(_)
Flatten(ss) == IF ss = <<>> THEN <<>> ELSE ss[1] \o Flatten(Tail(ss))

\* itertools.combinations(pool, r), in its order (lexicographic in the
\* positions of pool)
RECURSIVE combinations(_, _)
combinations(pool, r) ==
    IF r = 0 THEN << <<>> >>
    ELSE IF Len(pool) < r THEN <<>>
    ELSE LET with == combinations(Tail(pool), r - 1)
             without == combinations(Tail(pool), r)
         IN  [j \in 1..Len(with) |-> <<pool[1]>> \o with[j]] \o without

\* random.choices(population, k=k): k draws with replacement.  n += 0.0;
\* [population[floor(random() * n)] for i in repeat(None, k)].  k <= 0 draws
\* nothing; the draws of one call are those of a linear generator
\* (index a + b*j mod n), which for k = 2 is every pair of positions.
\* An empty population with k > 0 raises IndexError: no outcome.
choices(population, k) ==
    IF k <= 0 THEN { <<>> }
    ELSE LET n == Len(population)
         IN  { [j \in 1..k |-> population[((a + b * j) % n) + 1]] :
                 a \in 0..(n - 1), b \in 0..(n - 1) }

---------------------------------------------------------------------------
(* The World collaborator (world.py) and the Simulation collaborator       *)
(* (water_sim.py), from the specification's §3 and §6.  A world is its     *)
(* ordered collection of cells (`hexes`); `grid[x][y]` is the cell of      *)
(* those coordinates.                                                      *)

Cell(x, y, water, pop) ==
    [x |-> x, y |-> y, water_level |-> water, is_flooded |-> water >= FLOOD_LEVEL,
     population |-> pop, evacuated |-> FALSE, drain_ok |-> TRUE]

\* A world of n cells on rows of GridWidth, from its water levels and
\* populations.
World(n, water, pop) ==
    [c \in 1..n |-> Cell((c - 1) % GridWidth, (c - 1) \div GridWidth, water[c], pop[c])]

Worlds(n, pops) ==
    { World(n, water, pop) : water \in [1..n -> 0..FLOOD_LEVEL], pop \in [1..n -> pops] }

\* state.grid[x][y]
grid(world, x, y) == world[CHOOSE c \in DOMAIN world : world[c].x = x /\ world[c].y = y]

Flood(cell) == [cell EXCEPT !.is_flooded = @ \/ cell.water_level >= FLOOD_LEVEL]

\* World.evacWorld(action): marks the named cells as evacuated
evacWorld(world, action) ==
    [c \in DOMAIN world |->
        IF In(<<world[c].x, world[c].y>>, action)
        THEN [world[c] EXCEPT !.evacuated = TRUE] ELSE world[c]]

\* simRain(world, rate): every cell gains `rate`
simRain(world, rate) ==
    [c \in DOMAIN world |-> [world[c] EXCEPT !.water_level = @ + rate]]

\* Flow from cell a to the next cell of `hexes`: one unit down a drop of two
FlowOut(world, a) ==
    IF a < 1 \/ a >= Len(world) THEN 0
    ELSE IF world[a].water_level >= world[a + 1].water_level + 2 THEN 1
    ELSE IF world[a + 1].water_level >= world[a].water_level + 2 THEN -1
    ELSE 0

\* simFlow(world): water moves between neighbouring cells
simFlow(world) ==
    [c \in DOMAIN world |->
        [world[c] EXCEPT !.water_level = @ - FlowOut(world, c) + FlowOut(world, c - 1)]]

\* randDrainFail(world): the outcomes of one step of random drain failure:
\* no drain fails, or one working drain does
randDrainFail(world) ==
    {world} \cup { [world EXCEPT ![c].drain_ok = FALSE] :
                     c \in { d \in DOMAIN world : world[d].drain_ok } }

\* simDrain(world): a cell with a working drain loses one unit; a cell
\* left at the flood threshold is flooded from then on
simDrain(world) ==
    [c \in DOMAIN world |->
        Flood(IF world[c].drain_ok /\ world[c].water_level > 0
              THEN [world[c] EXCEPT !.water_level = @ - 1] ELSE world[c])]

---------------------------------------------------------------------------
(* MCTS.get_next_state on a heap of world objects (SpecStep).              *)

\* deepcopy(state): a new object holding a copy; heap and reference
NoCopy(h, ref) == [heap |-> h, ref |-> ref]

deepcopy(h, ref) == [heap |-> Append(h, h[ref]), ref |-> Len(h) + 1]

\* An action: coordinates of the world, possibly repeated or absent
StepActions(world) ==
    LET coords == { <<world[c].x, world[c].y>> : c \in DOMAIN world }
    IN  { <<>> } \cup { <<a>> : a \in coords } \cup { <<a, b>> : a \in coords, b \in coords }

\* line 41: next_state = deepcopy(state)
StepCopy ==
    /\ step_pc = "idle"
    /\ calls < MaxCalls
    /\ \E ref \in DOMAIN heap, action \in StepActions(heap[1]) :
        LET copy == deepcopy(heap, ref)
        IN  /\ state_ref' = ref
            /\ step_action' = action
            /\ pre_heap' = heap
            /\ heap' = copy.heap
            /\ next_ref' = copy.ref
    /\ calls' = calls + 1
    /\ step_pc' = "evac"
    /\ UNCHANGED <<cfg, rollVars, polVars, enumVars, treeVars>>

\* line 43: next_state.evacWorld(action)
StepEvac ==
    /\ step_pc = "evac"
    /\ heap' = [heap EXCEPT ![next_ref] = evacWorld(@, step_action)]
    /\ step_pc' = "rain"
    /\ UNCHANGED <<cfg, state_ref, next_ref, step_action, pre_heap, calls,
                   rollVars, polVars, enumVars, treeVars>>

\* line 45: next_state = simRain(next_state, PRECIP_RATE)
StepRain ==
    /\ step_pc = "rain"
    /\ heap' = [heap EXCEPT ![next_ref] = simRain(@, PRECIP_RATE)]
    /\ step_pc' = "flow"
    /\ UNCHANGED <<cfg, state_ref, next_ref, step_action, pre_heap, calls,
                   rollVars, polVars, enumVars, treeVars>>

\* line 47: next_state = simFlow(next_state)
StepFlow ==
    /\ step_pc = "flow"
    /\ heap' = [heap EXCEPT ![next_ref] = simFlow(@)]
    /\ step_pc' = "fail"
    /\ UNCHANGED <<cfg, state_ref, next_ref, step_action, pre_heap, calls,
                   rollVars, polVars, enumVars, treeVars>>

\* line 49: next_state = randDrainFail(next_state)
StepFail ==
    /\ step_pc = "fail"
    /\ \E w \in randDrainFail(heap[next_ref]) : heap' = [heap EXCEPT ![next_ref] = w]
    /\ step_pc' = "drain"
    /\ UNCHANGED <<cfg, state_ref, next_ref, step_action, pre_heap, calls,
                   rollVars, polVars, enumVars, treeVars>>

\* line 51: next_state = simDrain(next_state)
StepDrain ==
    /\ step_pc = "drain"
    /\ heap' = [heap EXCEPT ![next_ref] = simDrain(@)]
    /\ step_pc' = "return"
    /\ UNCHANGED <<cfg, state_ref, next_ref, step_action, pre_heap, calls,
                   rollVars, polVars, enumVars, treeVars>>

\* line 52: return next_state
StepReturn ==
    /\ step_pc = "return"
    /\ step_pc' = "idle"
    /\ UNCHANGED <<cfg, heap, state_ref, next_ref, step_action, pre_heap, calls,
                   rollVars, polVars, enumVars, treeVars>>

IdleStep ==
    /\ heap = <<>> /\ state_ref = 0 /\ next_ref = 0 /\ step_action = <<>>
    /\ step_pc = "off" /\ pre_heap = <<>> /\ calls = 0

IdleRoll ==
    /\ rollout_state = <<>> /\ steps = 0 /\ i = 0 /\ utility = 0 /\ roll_pc = "off"
    /\ evac_hexes = <<>> /\ last_reward = None

IdlePol ==
    /\ state = <<>> /\ t = 0 /\ net_reward = 0 /\ pol_pc = "off" /\ trajectory = <<>>

IdleEnum ==
    /\ enum_state = <<>> /\ action_space = <<>> /\ actions = <<>> /\ enum_pc = "off"

IdleTree ==
    /\ nodes = <<>> /\ tree_result = <<>>

InitStep ==
    /\ cfg \in Configs({CHOOSE w \in Weights : TRUE}, {1}, 0..1, {1})
    /\ \E w \in Worlds(NumCells, {1}) : heap = <<w>>
    /\ state_ref = 0 /\ next_ref = 0 /\ step_action = <<>>
    /\ step_pc = "idle" /\ pre_heap = <<>> /\ calls = 0
    /\ IdleRoll /\ IdlePol /\ IdleEnum /\ IdleTree

NextStep ==
    \/ StepCopy \/ StepEvac \/ StepRain \/ StepFlow
    \/ StepFail \/ StepDrain \/ StepReturn

SpecStep == InitStep /\ [][NextStep]_vars

---------------------------------------------------------------------------
(* The engine's functions on world values.  A stochastic function is the   *)
(* set of its outcomes.                                                    *)

\* MCTS.__init__: self.m = 20 (simulations), self.c = 0 (exploration)
m == 20
c == 0

\* MCTS.get_next_state(state, action): the successors of state.  The copy
\* of a value is the value; the evacuation and the four simulation steps
\* act on the copy, in the order of lines 43-51.
get_next_state(world, action) ==
    { simDrain(w) :
        w \in randDrainFail(simFlow(simRain(evacWorld(world, action), PRECIP_RATE))) }

\* MCTS.narrow_action_space(state): water_level > 0.25*FLOOD_LEVEL and not
\* is_flooded, as coordinates in the order of state.hexes
narrow_action_space_no_threshold(world) ==
    LET hex_space == SelectSeq(world, LAMBDA h : ~h.is_flooded)
    IN  [j \in 1..Len(hex_space) |-> <<hex_space[j].x, hex_space[j].y>>]

narrow_action_space(world) ==
    LET hex_space == SelectSeq(world,
                        LAMBDA h : 4 * h.water_level > FLOOD_LEVEL /\ ~h.is_flooded)
    IN  [j \in 1..Len(hex_space) |-> <<hex_space[j].x, hex_space[j].y>>]

\* MCTS.calculate_reward, lines 66-78: the terms the four `if`s add for
\* the hex at position h of state.hexes, in the order they are added
reward_terms_flood_unguarded(world, action, next_state, h) ==
    LET hex == world[h]
        evac == In(<<hex.x, hex.y>>, action)
        flooded == grid(next_state, hex.x, hex.y).is_flooded
    IN  (IF evac /\ flooded THEN <<R_FLOOD_EVAC * hex.population>> ELSE <<>>)
        \o (IF evac /\ ~flooded THEN <<R_DRY_EVAC * hex.population>> ELSE <<>>)
        \o (IF flooded THEN <<R_FLOOD_NO_EVAC * hex.population>> ELSE <<>>)
        \o (IF ~evac /\ ~flooded THEN <<R_DRY_NO_EVAC * hex.population>> ELSE <<>>)

reward_terms(world, action, next_state, h) ==
    LET hex == world[h]
        evac == In(<<hex.x, hex.y>>, action)
        flooded == grid(next_state, hex.x, hex.y).is_flooded
    IN  (IF evac /\ flooded THEN <<R_FLOOD_EVAC * hex.population>> ELSE <<>>)
        \o (IF evac /\ ~flooded THEN <<R_DRY_EVAC * hex.population>> ELSE <<>>)
        \o (IF ~evac /\ flooded THEN <<R_FLOOD_NO_EVAC * hex.population>> ELSE <<>>)
        \o (IF ~evac /\ ~flooded THEN <<R_DRY_NO_EVAC * hex.population>> ELSE <<>>)

\* MCTS.calculate_reward(state, action, next_state)
calculate_reward(world, action, next_state) ==
    Sum(Flatten([h \in 1..Len(world) |-> reward_terms(world, action, next_state, h)]))

\* MCTS.random_rollout, lines 89-93: the action of one iteration
rollout_action(world) ==
    LET space == narrow_action_space(world)
    IN  IF Len(space) < MAX_EVAC_CELLS THEN {space}
        ELSE choices(space, MAX_EVAC_CELLS)

\* MCTS.random_rollout, lines 89-99: the outcomes of one loop iteration
\* from rollout_state = world and utility = total
rollout_iteration(world, total) ==
    UNION { { [rollout_state |-> next_state, evac_hexes |-> evac,
               reward |-> calculate_reward(world, evac, next_state),
               utility |-> total + calculate_reward(world, evac, next_state)] :
                next_state \in get_next_state(world, evac) } :
            evac \in rollout_action(world) }

\* the loop of lines 87-99 on every outcome so far: (rollout_state, utility)
RECURSIVE rollout_loop(_, _)
rollout_loop(frontier, remaining) ==
    IF remaining <= 0 THEN { p.utility : p \in frontier }
    ELSE rollout_loop(
            { [rollout_state |-> o.rollout_state, utility |-> o.utility] :
                o \in UNION { rollout_iteration(p.rollout_state, p.utility) : p \in frontier } },
            remaining - 1)

\* MCTS.random_rollout(state, steps): the utilities it can return
random_rollout(world, n) ==
    rollout_loop({ [rollout_state |-> world, utility |-> 0] }, n)

\* MCTS.get_branched_actions, lines 106-114: every combination of at most
\* MAX_EVAC_CELLS candidates, by size
RECURSIVE combinations_up_to(_, _, _)
combinations_up_to(coord_space, size, stop) ==
    IF size >= stop THEN <<>>
    ELSE combinations(coord_space, size) \o combinations_up_to(coord_space, size + 1, stop)

branch_action_space_short(coord_space) ==
    IF Len(coord_space) < MAX_EVAC_CELLS
    THEN combinations_up_to(coord_space, 0, Len(coord_space) + 1)
    ELSE combinations_up_to(coord_space, 0, MAX_EVAC_CELLS)

branch_action_space(coord_space) ==
    IF Len(coord_space) < MAX_EVAC_CELLS
    THEN combinations_up_to(coord_space, 0, Len(coord_space) + 1)
    ELSE combinations_up_to(coord_space, 0, MAX_EVAC_CELLS + 1)

\* MCTS.get_branched_actions, lines 117-120: m actions drawn with
\* replacement unless there are fewer than m
sample_actions(space) ==
    IF Len(space) < m THEN {space} ELSE choices(space, m)

\* MCTS.get_branched_actions(state): the lists it can return
get_branched_actions(world) ==
    sample_actions(branch_action_space(narrow_action_space(world)))

\* RandAct, lines 162-164: per action, the utilities its rollout can return
rollout_results(world, space, horizon) ==
    [j \in 1..Len(space) |->
        UNION { random_rollout(next_state, horizon) :
                  next_state \in get_next_state(world, space[j]) }]

\* RandAct, line 166: position j is rollout_results.index(max(rollout_results))
\* for some outcome of the rollouts: one of its utilities exceeds an outcome
\* of every earlier position and is not below an outcome of every later one
\* (the rollouts are independent).
can_be_best(results, j) ==
    \E u \in results[j] :
        /\ \A l \in 1..(j - 1) : \E v \in results[l] : v < u
        /\ \A l \in (j + 1)..Len(results) : \E v \in results[l] : v <= u

\* RandAct(state, t): the actions it can return
RandAct(world, horizon) ==
    UNION { IF space = <<>> THEN {space}
            ELSE LET results == rollout_results(world, space, horizon)
                 IN  { space[j] : j \in { l \in 1..Len(space) : can_be_best(results, l) } } :
            space \in get_branched_actions(world) }

---------------------------------------------------------------------------
(* SpecRollout: MCTS.random_rollout(state, steps), one loop iteration per  *)
(* step.                                                                   *)

\* lines 84-86: rollout_state = deepcopy(state); utility = 0
RolloutEnter ==
    /\ roll_pc = "call"
    /\ i' = 0
    /\ utility' = 0
    /\ roll_pc' = "loop"
    /\ UNCHANGED <<cfg, rollout_state, steps, evac_hexes, last_reward,
                   stepVars, polVars, enumVars, treeVars>>

\* lines 87-99: one iteration of `for i in range(steps)`
RolloutIterate ==
    /\ roll_pc = "loop"
    /\ i < steps
    /\ \E o \in rollout_iteration(rollout_state, utility) :
        /\ evac_hexes' = o.evac_hexes
        /\ last_reward' = Some([state |-> rollout_state, action |-> o.evac_hexes,
                                next_state |-> o.rollout_state, reward |-> o.reward])
        /\ utility' = o.utility
        /\ rollout_state' = o.rollout_state
    /\ i' = i + 1
    /\ UNCHANGED <<cfg, steps, roll_pc, stepVars, polVars, enumVars, treeVars>>

\* line 100: return utility
RolloutReturn ==
    /\ roll_pc = "loop"
    /\ i >= steps
    /\ roll_pc' = "returned"
    /\ UNCHANGED <<cfg, rollout_state, steps, i, utility, evac_hexes, last_reward,
                   stepVars, polVars, enumVars, treeVars>>

InitRollout ==
    /\ cfg \in Configs(Weights, 1..2, 0..1, {1})
    /\ rollout_state \in Worlds(NumCells, 1..2)
    /\ steps \in 0..MaxSteps
    /\ i = 0 /\ utility = 0 /\ roll_pc = "call"
    /\ evac_hexes = <<>> /\ last_reward = None
    /\ IdleStep /\ IdlePol /\ IdleEnum /\ IdleTree

NextRollout == RolloutEnter \/ RolloutIterate \/ RolloutReturn

SpecRollout == InitRollout /\ [][NextRollout]_vars

---------------------------------------------------------------------------
(* SpecPolicy: RandPolicy(state), one loop iteration per step.             *)

\* RandPolicy, lines 175-177, with the reward taken from one successor and
\* the trajectory advanced to another
policy_iteration_other_successor(world, time) ==
    UNION { { [horizon |-> SIM_TIME - time, action |-> action, next_state |-> next_state,
               reward |-> calculate_reward(world, action, other)] :
                next_state \in get_next_state(world, action),
                other \in get_next_state(world, action) } :
            action \in RandAct(world, SIM_TIME - time) }

\* RandPolicy, lines 175-177: the outcomes of one loop iteration at t = time
policy_iteration(world, time) ==
    UNION { { [horizon |-> SIM_TIME - time, action |-> action, next_state |-> next_state,
               reward |-> calculate_reward(world, action, next_state)] :
                next_state \in get_next_state(world, action) } :
            action \in RandAct(world, SIM_TIME - time) }

\* lines 170-172: t = 0; net_reward = 0
PolicyEnter ==
    /\ pol_pc = "call"
    /\ t' = 0
    /\ net_reward' = 0
    /\ pol_pc' = "loop"
    /\ UNCHANGED <<cfg, state, trajectory, stepVars, rollVars, enumVars, treeVars>>

\* lines 173-179: one iteration of `while t < SIM_TIME`
PolicyIterate ==
    /\ pol_pc = "loop"
    /\ t < SIM_TIME
    /\ \E o \in policy_iteration(state, t) :
        /\ net_reward' = net_reward + o.reward
        /\ trajectory' = Append(trajectory,
                            [state |-> state, horizon |-> o.horizon, action |-> o.action,
                             next_state |-> o.next_state])
        /\ state' = o.next_state
    /\ t' = t + 1
    /\ UNCHANGED <<cfg, pol_pc, stepVars, rollVars, enumVars, treeVars>>

\* line 180: return net_reward
PolicyReturn ==
    /\ pol_pc = "loop"
    /\ ~(t < SIM_TIME)
    /\ pol_pc' = "returned"
    /\ UNCHANGED <<cfg, state, t, net_reward, trajectory,
                   stepVars, rollVars, enumVars, treeVars>>

InitPolicy ==
    /\ cfg \in Configs(Weights, -1..2, 0..1, 0..MaxSimTime)
    /\ state \in Worlds(PolicyCells, {1})
    /\ t = 0 /\ net_reward = 0 /\ pol_pc = "call" /\ trajectory = <<>>
    /\ IdleStep /\ IdleRoll /\ IdleEnum /\ IdleTree

NextPolicy == PolicyEnter \/ PolicyIterate \/ PolicyReturn

SpecPolicy == InitPolicy /\ [][NextPolicy]_vars

\* The runs of RandPolicy with a valid configuration: capacity 1 and a
\* horizon SIM_TIME >= 1.
InitPolicyFair ==
    /\ cfg \in Configs({CHOOSE w \in Weights : TRUE}, {1}, 0..1, 1..MaxSimTime)
    /\ state \in Worlds(PolicyCells, {1})
    /\ t = 0 /\ net_reward = 0 /\ pol_pc = "call" /\ trajectory = <<>>
    /\ IdleStep /\ IdleRoll /\ IdleEnum /\ IdleTree

\* RandPolicy is sequential code: a statement that can run does run.
SpecPolicyFair == InitPolicyFair /\ [][NextPolicy]_vars /\ WF_vars(NextPolicy)

---------------------------------------------------------------------------
(* SpecEnum: MCTS.get_branched_actions(state) on a drawn world.            *)

\* lines 104-114: coord_space and the enumerated action_space
EnumEnumerate ==
    /\ enum_pc = "call"
    /\ action_space' = branch_action_space(narrow_action_space(enum_state))
    /\ enum_pc' = "enumerated"
    /\ UNCHANGED <<cfg, enum_state, actions, stepVars, rollVars, polVars, treeVars>>

\* lines 117-122: the m sampled actions, or all of them; return actions
EnumSample ==
    /\ enum_pc = "enumerated"
    /\ actions' \in sample_actions(action_space)
    /\ enum_pc' = "returned"
    /\ UNCHANGED <<cfg, enum_state, action_space, stepVars, rollVars, polVars, treeVars>>

InitEnum ==
    /\ cfg \in Configs({CHOOSE w \in Weights : TRUE}, -1..3, {1}, {1})
    /\ enum_state \in Worlds(EnumCells, {1})
    /\ action_space = <<>> /\ actions = <<>> /\ enum_pc = "call"
    /\ IdleStep /\ IdleRoll /\ IdlePol /\ IdleTree

NextEnum == EnumEnumerate \/ EnumSample

SpecEnum == InitEnum /\ [][NextEnum]_vars

---------------------------------------------------------------------------
(* SpecTree: Node objects and the tree functions of MCTS.  A float is      *)
(* infinity, NaN or a fraction num/den of integers with den > 0.           *)

Inf == [kind |-> "inf", num |-> 0, den |-> 1]
NaN == [kind |-> "nan", num |-> 0, den |-> 1]
Fraction(num, den) == [kind |-> "num", num |-> num, den |-> den]
Unmodelled == [kind |-> "unmodelled", num |-> 0, den |-> 1]

\* Python's a > b and a == b on floats: false whenever one side is NaN
Greater(a, b) ==
    CASE a.kind = "nan" \/ b.kind = "nan" -> FALSE
      [] a.kind = "inf" -> b.kind # "inf"
      [] b.kind = "inf" -> FALSE
      [] OTHER -> a.num * b.den > b.num * a.den

Equal(a, b) ==
    CASE a.kind = "nan" \/ b.kind = "nan" -> FALSE
      [] a.kind = "inf" \/ b.kind = "inf" -> a.kind = b.kind
      [] OTHER -> a.num * b.den = b.num * a.den

\* max(values): the position of the object returned; a later element
\* replaces the running maximum only when it is greater
RECURSIVE max_from(_, _, _)
max_from(values, best, j) ==
    IF j > Len(values) THEN best
    ELSE max_from(values, IF Greater(values[j], values[best]) THEN j ELSE best, j + 1)

max(values) == max_from(values, 1, 2)

\* values.index(values[at]): the first position holding that object or an
\* equal one
index(values, at) ==
    CHOOSE j \in DOMAIN values :
        /\ j = at \/ Equal(values[j], values[at])
        /\ \A k \in 1..(j - 1) : ~(k = at \/ Equal(values[k], values[at]))

\* Node.__init__(self, state), lines 11-18: the state handed in is not kept
Node(world) ==
    [state |-> None, action |-> None, parent |-> None, children |-> <<>>,
     visits |-> 0, reward |-> 0, curr_depth |-> 0]

\* Node.add_child(self, child), on the tree: parent and child are positions
add_child(tree, parent, child) ==
    [tree EXCEPT ![parent].children = Append(@, child), ![child].parent = Some(parent)]

\* Node.update(self, reward)
update(tree, node, reward) ==
    [tree EXCEPT ![node].visits = @ + 1, ![node].reward = @ + reward]

\* np.sqrt(np.log(parent_visits) / visits), by its class: log(0) is -inf
\* (a warning, no error), and the root of -inf is NaN
sqrt_log_ratio(parent_visits, visits) ==
    IF parent_visits = 0 THEN "nan"
    ELSE IF parent_visits = 1 THEN "zero"
    ELSE "positive"

\* self.c * (that root): c = 0 leaves NaN or 0
exploration(parent_visits, visits) ==
    LET root == sqrt_log_ratio(parent_visits, visits)
    IN  IF root = "nan" THEN "nan"
        ELSE IF c = 0 \/ root = "zero" THEN "zero"
        ELSE "positive"

\* MCTS.ucb1(node) with the average taken as reward * visits
ucb1_product(tree, node) ==
    IF tree[node].visits = 0 THEN [raised |-> "", value |-> Inf]
    ELSE IF tree[node].parent = None
    THEN [raised |-> "AttributeError", value |-> NaN]
    ELSE LET bonus == exploration(tree[tree[node].parent[1]].visits, tree[node].visits)
         IN  [raised |-> "",
              value |-> CASE bonus = "nan" -> NaN
                          [] bonus = "zero" ->
                                Fraction(tree[node].reward * tree[node].visits, 1)
                          [] OTHER -> Unmodelled]

\* MCTS.ucb1(node): what it raises, or the score it returns.  node.parent
\* of a root is None, which has no `visits`.
ucb1(tree, node) ==
    IF tree[node].visits = 0 THEN [raised |-> "", value |-> Inf]
    ELSE IF tree[node].parent = None
    THEN [raised |-> "AttributeError", value |-> NaN]
    ELSE LET bonus == exploration(tree[tree[node].parent[1]].visits, tree[node].visits)
         IN  [raised |-> "",
              value |-> CASE bonus = "nan" -> NaN
                          [] bonus = "zero" -> Fraction(tree[node].reward, tree[node].visits)
                          [] OTHER -> Unmodelled]

\* MCTS.get_best_action(parent): max of no children raises ValueError
get_best_action(tree, parent) ==
    LET children == tree[parent].children
        ucb1_values == [j \in DOMAIN children |-> ucb1(tree, children[j]).value]
    IN  IF children = <<>>
        THEN [raised |-> "ValueError", value |-> None]
        ELSE [raised |-> "",
              value |-> tree[children[index(ucb1_values, max(ucb1_values))]].action]

\* MCTS.expand, lines 143-147: one child per action; Node(...) drops the
\* successor state it is given
RECURSIVE attach_children(_, _, _)
attach_children(tree, node, todo) ==
    IF todo = <<>> THEN tree
    ELSE LET child == [Node(get_next_state(tree[node].state[1], todo[1]))
                          EXCEPT !.action = Some(todo[1])]
         IN  attach_children(add_child(Append(tree, child), node, Len(tree) + 1),
                             node, Tail(todo))

\* MCTS.expand(node): line 141 hands the node itself, not node.state, to
\* get_branched_actions, whose narrow_action_space reads `.hexes` of it: a
\* Node has no such attribute
expand(tree, node) ==
    IF "hexes" \notin DOMAIN tree[node]
    THEN { [raised |-> "AttributeError", tree |-> tree] }
    ELSE { [raised |-> "", tree |-> attach_children(tree, node, branched)] :
             branched \in get_branched_actions(tree[node].hexes) }

NoResult == [op |-> "none", node |-> 0, raised |-> "", value |-> None]

\* The action a caller gives the node created at position n: the first n - 2
\* cells of a grid row (each node another action)
ChildAction(n) == [j \in 1..(n - 2) |-> <<j - 1, 0>>]

\* A caller builds a node as lines 144-147 do: child = Node(state);
\* child.action = action; parent.add_child(child)
TreeAddChild ==
    /\ Len(nodes) < MaxNodes
    /\ \E parent \in DOMAIN nodes :
        LET child == [Node(nodes[1].state) EXCEPT !.action = Some(ChildAction(Len(nodes) + 1))]
        IN  nodes' = add_child(Append(nodes, child), parent, Len(nodes) + 1)
    /\ tree_result' = NoResult
    /\ UNCHANGED <<cfg, stepVars, rollVars, polVars, enumVars>>

\* node.update(reward)
TreeUpdate ==
    /\ Sum([n \in DOMAIN nodes |-> nodes[n].visits]) < MaxUpdates
    /\ \E node \in DOMAIN nodes, reward \in {-1, 0, 2} :
        nodes' = update(nodes, node, reward)
    /\ tree_result' = NoResult
    /\ UNCHANGED <<cfg, stepVars, rollVars, polVars, enumVars>>

\* mcts.ucb1(node)
TreeScore ==
    /\ \E node \in DOMAIN nodes :
        tree_result' = [op |-> "ucb1", node |-> node,
                        raised |-> ucb1(nodes, node).raised,
                        value |-> ucb1(nodes, node).value]
    /\ UNCHANGED <<cfg, nodes, stepVars, rollVars, polVars, enumVars>>

\* mcts.get_best_action(parent)
TreeBestAction ==
    /\ \E parent \in DOMAIN nodes :
        tree_result' = [op |-> "get_best_action", node |-> parent,
                        raised |-> get_best_action(nodes, parent).raised,
                        value |-> get_best_action(nodes, parent).value]
    /\ UNCHANGED <<cfg, nodes, stepVars, rollVars, polVars, enumVars>>

\* mcts.expand(node)
TreeExpand ==
    /\ \E node \in DOMAIN nodes :
       \E result \in expand(nodes, node) :
        /\ nodes' = result.tree
        /\ tree_result' = [op |-> "expand", node |-> node,
                           raised |-> result.raised, value |-> None]
    /\ UNCHANGED <<cfg, stepVars, rollVars, polVars, enumVars>>

\* One root, built by Node(world), with the world then assigned to
\* root.state by the caller
InitTree ==
    /\ cfg = Config(CHOOSE w \in Weights : TRUE, 2, 1, 1, 1)
    /\ LET world == World(1, <<1>>, <<1>>)
       IN  nodes = <<[Node(world) EXCEPT !.state = Some(world)]>>
    /\ tree_result = NoResult
    /\ IdleStep /\ IdleRoll /\ IdlePol /\ IdleEnum

NextTree == TreeAddChild \/ TreeUpdate \/ TreeScore \/ TreeBestAction \/ TreeExpand

SpecTree == InitTree /\ [][NextTree]_vars

---------------------------------------------------------------------------
(* Properties of SpecRollout.                                              *)

\* C2 (as claimed): every action handed to get_next_state is a collection
\* of distinct coordinates of size at most MAX_EVAC_CELLS; here, the action
\* random_rollout builds in each iteration.
C2_ActionsDistinctWithinCapacity ==
    roll_pc # "off" =>
        /\ Distinct(evac_hexes)
        /\ Len(evac_hexes) <= MAX_EVAC_CELLS

\* The payoff the claim gives the cell at position h: the weight selected by
\* (coordinate in action?, flooded in next_state?) times its population.
ClaimedTerm(call, h) ==
    LET hex == call.state[h]
        evacuated == \E j \in DOMAIN call.action : call.action[j] = <<hex.x, hex.y>>
        flooded == \E n \in DOMAIN call.next_state :
                      /\ call.next_state[n].x = hex.x
                      /\ call.next_state[n].y = hex.y
                      /\ call.next_state[n].is_flooded
        weight == CASE evacuated /\ flooded -> R_FLOOD_EVAC
                    [] evacuated /\ ~flooded -> R_DRY_EVAC
                    [] ~evacuated /\ flooded -> R_FLOOD_NO_EVAC
                    [] ~evacuated /\ ~flooded -> R_DRY_NO_EVAC
    IN  weight * hex.population

\* C9: calculate_reward adds exactly one of the four weighted terms per
\* cell of state, the one selected by (in action?, flooded after?), and
\* returns the sum of these terms over all cells.
C9_OneTermPerCell ==
    \A n \in DOMAIN last_reward :
        LET call == last_reward[n]
        IN  /\ \A h \in DOMAIN call.state :
                reward_terms(call.state, call.action, call.next_state, h)
                    = <<ClaimedTerm(call, h)>>
            /\ call.reward = Sum([h \in DOMAIN call.state |-> ClaimedTerm(call, h)])

\* C9's case: one call pays an evacuated cell that flooded and a cell left
\* alone that stayed dry.
C9_Witness ==
    \E n \in DOMAIN last_reward :
        LET call == last_reward[n]
        IN  \E h, k \in DOMAIN call.state :
                /\ In(<<call.state[h].x, call.state[h].y>>, call.action)
                /\ call.next_state[h].is_flooded
                /\ ~In(<<call.state[k].x, call.state[k].y>>, call.action)
                /\ ~call.next_state[k].is_flooded
                /\ call.reward # 0

---------------------------------------------------------------------------
(* Properties of SpecStep.                                                 *)

\* C1: get_next_state(s, a) leaves s unchanged: from the call on, every
\* object that existed when the call was made (s among them) holds the value
\* it held then, and the successor is another object than s, so what the
\* evacuation and the four simulation steps do to it is not seen in s.
C1_InputUnchanged ==
    calls > 0 =>
        /\ next_ref # state_ref
        /\ next_ref \notin DOMAIN pre_heap
        /\ \A ref \in DOMAIN pre_heap : heap[ref] = pre_heap[ref]

\* C1's case: a call with an evacuation has run to its return and the
\* successor differs from the input in water and in evacuation marks.
C1_Witness ==
    /\ step_pc = "return"
    /\ step_action # <<>>
    /\ \E h \in DOMAIN heap[next_ref] :
        /\ heap[next_ref][h].evacuated
        /\ ~heap[state_ref][h].evacuated
    /\ \E h \in DOMAIN heap[next_ref] :
        heap[next_ref][h].water_level # heap[state_ref][h].water_level

---------------------------------------------------------------------------
(* Properties of SpecPolicy.                                               *)

\* C3 (as claimed): an invalid configuration, a horizon SIM_TIME <= 0 or a
\* capacity MAX_EVAC_CELLS <= 0, ends in an error: RandPolicy never returns
\* a reward under it.
C3_InvalidConfigurationIsFatal ==
    (SIM_TIME <= 0 \/ MAX_EVAC_CELLS <= 0) => pol_pc # "returned"

\* The reward the claims give one iteration of the trajectory: per cell of
\* the pre-action state, the term selected by its action and its successor.
ClaimedReward(entry) ==
    Sum([h \in DOMAIN entry.state |-> ClaimedTerm(entry, h)])

\* A world without candidate cell: no cell has water_level above a quarter
\* of FLOOD_LEVEL and is not flooded.
NoCandidate(world) ==
    \A h \in DOMAIN world :
        ~(4 * world[h].water_level > FLOOD_LEVEL /\ ~world[h].is_flooded)

TrajectoryAccount ==
    (pol_pc \in {"loop", "returned"} /\ SIM_TIME >= 1) =>
        /\ Len(trajectory) = t
        /\ t <= SIM_TIME
        /\ pol_pc = "returned" => t = SIM_TIME
        /\ \A j \in DOMAIN trajectory :
            /\ trajectory[j].horizon = SIM_TIME - (j - 1)
            /\ trajectory[j].next_state =
                 (IF j < Len(trajectory) THEN trajectory[j + 1].state ELSE state)
        /\ net_reward = Sum([j \in DOMAIN trajectory |-> ClaimedReward(trajectory[j])])

\* C10: with SIM_TIME >= 1, RandPolicy terminates, after exactly SIM_TIME
\* iterations; iteration t chooses its action at horizon SIM_TIME - t; and
\* the value returned is the sum over the iterations of the reward of
\* (pre-action state, chosen action, the successor the trajectory advanced
\* to).
C10_RewardAlongTrajectory ==
    /\ []TrajectoryAccount
    /\ (pol_pc = "call" /\ SIM_TIME >= 1) ~> (pol_pc = "returned" /\ t = SIM_TIME)

\* C10's case: a run of two iterations, the first an evacuation, has
\* returned a reward other than 0.
C10_Witness ==
    /\ pol_pc = "returned"
    /\ SIM_TIME = 2
    /\ Len(trajectory) = 2
    /\ trajectory[1].action # <<>>
    /\ trajectory[2].state # trajectory[1].state
    /\ net_reward # 0

---------------------------------------------------------------------------
(* Properties of SpecEnum.                                                 *)

\* The binomial coefficient C(n, r)
RECURSIVE Binomial(_, _)
Binomial(n, r) ==
    IF r < 0 \/ r > n THEN 0
    ELSE IF r = 0 \/ r = n THEN 1
    ELSE Binomial(n - 1, r - 1) + Binomial(n - 1, r)

\* The candidate coordinates of a world, as the claims describe them
Candidates(world) ==
    { <<world[h].x, world[h].y>> :
        h \in { k \in DOMAIN world :
                  4 * world[k].water_level > FLOOD_LEVEL /\ ~world[k].is_flooded } }

Min(a, b) == IF a < b THEN a ELSE b

\* C8: for n candidates and capacity k = MAX_EVAC_CELLS >= 0 the enumeration
\* holds exactly sum_{r=0..min(k,n)} C(n,r) actions, each a combination of
\* distinct candidates of size at most min(k,n), none listed twice, the
\* empty action among them; below m actions, get_branched_actions returns
\* the enumeration unchanged.
C8_EnumerationCount ==
    (enum_pc \in {"enumerated", "returned"} /\ MAX_EVAC_CELLS >= 0) =>
        LET n == Cardinality(Candidates(enum_state))
            top == Min(MAX_EVAC_CELLS, n)
        IN  /\ Len(action_space) = Sum([r \in 1..(top + 1) |-> Binomial(n, r - 1)])
            /\ Distinct(action_space)
            /\ \A j \in DOMAIN action_space :
                /\ Distinct(action_space[j])
                /\ Range(action_space[j]) \subseteq Candidates(enum_state)
                /\ Len(action_space[j]) <= top
            /\ \E j \in DOMAIN action_space : action_space[j] = <<>>
            /\ (enum_pc = "returned" /\ Len(action_space) < m) => actions = action_space

\* C8's case: four candidates at capacity 2 give 1 + 4 + 6 actions, all of
\* them returned.
C8_Witness ==
    /\ enum_pc = "returned"
    /\ MAX_EVAC_CELLS = 2
    /\ Cardinality(Candidates(enum_state)) = 4
    /\ Len(actions) = 11

---------------------------------------------------------------------------
(* Properties of SpecTree.                                                 *)

Children(node) == nodes[node].children

Score(tree, node) == ucb1(tree, node).value

\* a <= b on finite scores
AtMost(a, b) == a.num * b.den <= b.num * a.den

\* C4 (as claimed): expand(node) on a node that holds a world state raises
\* nothing and leaves node with at least one child (the empty action is
\* always branched), each child attached to node and holding a state that
\* is not None.
C4_ExpandAttachesSuccessors ==
    (tree_result.op = "expand" /\ nodes[tree_result.node].state # None) =>
        /\ tree_result.raised = ""
        /\ Children(tree_result.node) # <<>>
        /\ \A j \in DOMAIN Children(tree_result.node) :
            LET child == nodes[Children(tree_result.node)[j]]
            IN  /\ child.parent = Some(tree_result.node)
                /\ child.state # None
                /\ child.action # None

\* A step that adds a visit to node and keeps its reward and its parent's
\* visits, both visited before and after
VisitOnly(node) ==
    /\ node \in DOMAIN nodes'
    /\ nodes[node].parent # None
    /\ nodes'[node].parent = nodes[node].parent
    /\ nodes'[node].reward = nodes[node].reward
    /\ nodes[node].visits >= 1
    /\ nodes'[node].visits >= nodes[node].visits
    /\ nodes[nodes[node].parent[1]].visits >= 1
    /\ nodes'[nodes[node].parent[1]].visits = nodes[nodes[node].parent[1]].visits

\* What ucb1 returns for a node without visits, and for a visited node of a
\* visited parent
ScoreShape ==
    \A node \in DOMAIN nodes :
        /\ nodes[node].visits = 0 => ucb1(nodes, node) = [raised |-> "", value |-> Inf]
        /\ ( /\ nodes[node].visits >= 1
             /\ nodes[node].parent # None
             /\ nodes[nodes[node].parent[1]].visits >= 1 )
           => /\ ucb1(nodes, node).raised = ""
              /\ Score(nodes, node).kind = "num"
        /\ (tree_result.op = "ucb1" /\ tree_result.node = node)
           => tree_result.value = Score(nodes, node)

\* C5 (as claimed): ucb1 is +infinity at zero visits whatever the reward,
\* finite for a visited node of a visited parent, and with reward and
\* parent.visits fixed it does not increase with node.visits, for every
\* reward including negative ones.
C5_ScoreNonIncreasing ==
    /\ []ScoreShape
    /\ [][\A node \in DOMAIN nodes :
            VisitOnly(node) => AtMost(Score(nodes', node), Score(nodes, node))]_vars

\* C5 (amended): as claimed, but the score does not increase with
\* node.visits when node.reward >= 0.
C5_ScoreNonIncreasingForNonNegativeReward ==
    /\ []ScoreShape
    /\ [][\A node \in DOMAIN nodes :
            (VisitOnly(node) /\ nodes[node].reward >= 0)
                => AtMost(Score(nodes', node), Score(nodes, node))]_vars

\* C5's case: ucb1 has scored a node visited twice with a positive reward
\* under a visited parent (its average has halved since its first visit).
C5_Witness ==
    /\ tree_result.op = "ucb1"
    /\ tree_result.value.kind = "num"
    /\ nodes[tree_result.node].visits = 2
    /\ nodes[tree_result.node].reward = 2
    /\ nodes[tree_result.node].parent # None
    /\ nodes[nodes[tree_result.node].parent[1]].visits >= 1

\* C6 (as claimed): for a parent with at least one child, get_best_action
\* returns the action of the first child whose score no other child's score
\* exceeds; and whenever some child has zero visits, it returns the action
\* of the first zero-visit child.
C6_BestActionPrefersUnvisited ==
    (tree_result.op = "get_best_action" /\ Children(tree_result.node) # <<>>) =>
        LET children == Children(tree_result.node)
            unvisited == { j \in DOMAIN children : nodes[children[j]].visits = 0 }
        IN  /\ tree_result.raised = ""
            /\ \E j \in DOMAIN children :
                /\ tree_result.value = nodes[children[j]].action
                /\ \A k \in DOMAIN children :
                    ~Greater(Score(nodes, children[k]), Score(nodes, children[j]))
                /\ \A k \in 1..(j - 1) :
                    Greater(Score(nodes, children[j]), Score(nodes, children[k]))
            /\ unvisited # {} =>
                \E j \in unvisited :
                    /\ \A k \in unvisited : j <= k
                    /\ tree_result.value = nodes[children[j]].action

=============================================================================
